---- MODULE Spec2Model ----
(***************************************************************************)
(* The circle scorer of the "draw a perfect circle" game, in its four      *)
(* variants:                                                               *)
(*   "part_000"  src/unnamed/part_000                                      *)
(*   "script"    src/script.js                                             *)
(*   "circle_1"  src/CIRCLE/script.js, first copy  (lines 1-510)           *)
(*   "circle_2"  src/CIRCLE/script.js, second copy (lines 516-1095)        *)
(*                                                                         *)
(* Numbers.  The JavaScript works on IEEE doubles; here every real is a    *)
(* fixed-point integer:                                                    *)
(*   - a point coordinate is a whole number of CSS pixels;                 *)
(*   - a length (distance, radius, centre coordinate, deviation) counts    *)
(*     units of 1/Q pixel;                                                 *)
(*   - a ratio (aspectRatio, normalizedStdDev, radiusRangeRatio) counts    *)
(*     units of 1/RQ, RQ = Q*Q;                                            *)
(*   - a score or penalty counts units of 1/Q point until Math.round.      *)
(* Divisions and square roots round down to the unit.  Comparisons against *)
(* decimal thresholds (0.3, 0.4, 0.05 ...) are cross-multiplied so that    *)
(* they are exact on the fixed-point values.                               *)
(*                                                                         *)
(* Two specifications.  SpecScore: a caller fits and scores one stroke     *)
(* (all four variants).  Spec: the game of part_000 and script.js, driven  *)
(* by pointer events, button clicks, animation frames and the start of the *)
(* audio context.  The canvas pixels, colours, sounds and particles are    *)
(* not part of the state.                                                  *)
(***************************************************************************)
EXTENDS Integers, Sequences, FiniteSets, TLC

\* Fixed-point resolution: units per pixel and per score point.
Q == 100

\* Resolution of ratios.
RQ == Q * Q

Min(a, b) == IF a < b THEN a ELSE b

Max(a, b) == IF a > b THEN a ELSE b

Abs(a) == IF a < 0 THEN -a ELSE a

RECURSIVE ISqrtBetween(_, _, _)
\* The largest r in lo..hi with r*r <= n, by bisection.
ISqrtBetween(n, lo, hi) ==
    IF lo >= hi THEN lo
    ELSE LET mid == (lo + hi + 1) \div 2
         IN  IF mid * mid <= n THEN ISqrtBetween(n, mid, hi)
                               ELSE ISqrtBetween(n, lo, mid - 1)

\* Math.sqrt on a fixed-point square: floor of the square root.
\* 46340 is the largest root whose square fits the model's integers.
Sqrt(n) == ISqrtBetween(n, 0, Min(n, 46340))

\* Math.sqrt(Math.pow(ax - bx, 2) + Math.pow(ay - by, 2)), all in 1/Q pixel.
Hypot(ax, ay, bx, by) == Sqrt((ax - bx) * (ax - bx) + (ay - by) * (ay - by))

(***************************************************************************)
(* Circles.  targetCircle is null or an object {x, y, radius}.             *)
(***************************************************************************)
NullCircle == [present |-> FALSE, x |-> 0, y |-> 0, radius |-> 0]

Circle(cx, cy, r) == [present |-> TRUE, x |-> cx, y |-> cy, radius |-> r]

RECURSIVE SumX(_)
\* for (let p of points) sumX += p.x
SumX(points) ==
    IF points = <<>> THEN 0 ELSE Head(points).x + SumX(Tail(points))

RECURSIVE SumY(_)
\* for (let p of points) sumY += p.y
SumY(points) ==
    IF points = <<>> THEN 0 ELSE Head(points).y + SumY(Tail(points))

\* Distance of a pixel point to a centre given in 1/Q pixel.
DistanceToCenter(p, cx, cy) == Hypot(p.x * Q, p.y * Q, cx, cy)

RECURSIVE SumRadius(_, _, _)
\* for (let p of points) sumRadius += Math.sqrt(...)
SumRadius(points, cx, cy) ==
    IF points = <<>> THEN 0
    ELSE DistanceToCenter(Head(points), cx, cy) + SumRadius(Tail(points), cx, cy)

\* calculateCircleProperties with a wrong divisor for the centre (n - 1).
calculateCirclePropertiesOffByOne(points) ==
    IF Len(points) < 3 THEN NullCircle
    ELSE LET centerX == (SumX(points) * Q) \div (Len(points) - 1)
             centerY == (SumY(points) * Q) \div (Len(points) - 1)
             radius  == SumRadius(points, centerX, centerY) \div Len(points)
         IN  Circle(centerX, centerY, radius)

\* calculateCircleProperties rejecting collinear input (zero-area strokes).
calculateCirclePropertiesStrict(points) ==
    IF Len(points) < 3
       \/ (\A i \in 1..Len(points) : points[i].x = points[1].x)
       \/ (\A i \in 1..Len(points) : points[i].y = points[1].y)
    THEN NullCircle
    ELSE LET centerX == (SumX(points) * Q) \div Len(points)
             centerY == (SumY(points) * Q) \div Len(points)
             radius  == SumRadius(points, centerX, centerY) \div Len(points)
         IN  Circle(centerX, centerY, radius)

\* calculateCircleProperties: centroid and mean distance to it.
calculateCircleProperties(points) ==
    IF Len(points) < 3 THEN NullCircle
    ELSE LET centerX == (SumX(points) * Q) \div Len(points)
             centerY == (SumY(points) * Q) \div Len(points)
             radius  == SumRadius(points, centerX, centerY) \div Len(points)
         IN  Circle(centerX, centerY, radius)

\* MinPoints with a lower count in both variants.
MinPointsLowered(v) == IF v = "part_000" THEN 15 ELSE 10

(***************************************************************************)
(* Tunable thresholds of calculateCircleScore, per variant ("part_000" and *)
(* "script" share the algorithm and differ in these numbers only).         *)
(***************************************************************************)
\* drawnPoints.length < 30 (part_000) / < 20 (script.js)
MinPoints(v) == IF v = "part_000" THEN 30 ELSE 20

\* MinRadius with the thresholds halved.
MinRadiusHalved(v) == IF v = "part_000" THEN 5 ELSE 2

\* targetCircle.radius < 10 (part_000) / < 5 (script.js), in pixels
MinRadius(v) == IF v = "part_000" THEN 10 ELSE 5

\* closureThreshold = radius * 0.3 (part_000) / * 0.4 (script.js), in tenths
ClosureTenths(v) == IF v = "part_000" THEN 3 ELSE 4

\* lower edge of the path-length band: circumference * 0.6 / * 0.5, in tenths
BandLowTenths(v) == IF v = "part_000" THEN 6 ELSE 5

\* upper edge of the path-length band: circumference * 2.0 / * 2.5, in tenths
BandHighTenths(v) == IF v = "part_000" THEN 20 ELSE 25

\* 100 / (maxDimension / 4) = 400 / maxDimension; 100 / (maxDimension * 0.1)
DeviationFactor(v) == IF v = "part_000" THEN 400 ELSE 1000

\* ScoreFloor with a floor 20 points lower.
ScoreFloorLowered(v) == IF v = "part_000" THEN 30 ELSE 10

\* finalScore < 50 (part_000) / < 30 (script.js)
ScoreFloor(v) == IF v = "part_000" THEN 50 ELSE 30

\* aspectRatio < 0.4 (part_000) / < 0.2 (script.js), in tenths
AspectFloorTenths(v) == IF v = "part_000" THEN 4 ELSE 2

\* normalizedStdDev > 0.4 (part_000) / > 0.6 (script.js), in tenths
StdDevCeilTenths(v) == IF v = "part_000" THEN 4 ELSE 6

\* radius / maxDimension < 0.05 (part_000) / < 0.02 (script.js), in hundredths
RadiusRatioHundredths(v) == IF v = "part_000" THEN 5 ELSE 2

(***************************************************************************)
(* The measuring loops of calculateCircleScore.                            *)
(***************************************************************************)
\* radii.push(distanceToCenter) for every point, in 1/Q pixel.
Radii(drawnPoints, targetCircle) ==
    [i \in 1..Len(drawnPoints) |->
        DistanceToCenter(drawnPoints[i], targetCircle.x, targetCircle.y)]

RECURSIVE TotalDeviation(_, _, _)
\* totalDeviation += Math.abs(distanceToCenter - targetCircle.radius)
TotalDeviation(radii, radius, i) ==
    IF i = 0 THEN 0
    ELSE Abs(radii[i] - radius) + TotalDeviation(radii, radius, i - 1)

RECURSIVE SumOfSquaredDiffs(_, _, _)
\* radii.reduce((acc, r) => acc + Math.pow(r - radius, 2), 0), in 1/Q pixel^2
SumOfSquaredDiffs(radii, radius, i) ==
    IF i = 0 THEN 0
    ELSE ((radii[i] - radius) * (radii[i] - radius)) \div Q
         + SumOfSquaredDiffs(radii, radius, i - 1)

RECURSIVE MinOf(_, _)
\* Math.min folded over a non-empty sequence of numbers
MinOf(s, i) == IF i = 1 THEN s[1] ELSE Min(s[i], MinOf(s, i - 1))

RECURSIVE MaxOf(_, _)
\* Math.max folded over a non-empty sequence of numbers
MaxOf(s, i) == IF i = 1 THEN s[1] ELSE Max(s[i], MaxOf(s, i - 1))

Xs(points) == [i \in 1..Len(points) |-> points[i].x]

Ys(points) == [i \in 1..Len(points) |-> points[i].y]

RECURSIVE PathLength(_, _)
\* for (i = 1; i < length; i++) drawnPathLength += |p[i] - p[i-1]|
PathLength(points, i) ==
    IF i <= 1 THEN 0
    ELSE Hypot(points[i].x * Q, points[i].y * Q,
               points[i - 1].x * Q, points[i - 1].y * Q)
         + PathLength(points, i - 1)

\* Distance between the first and the last point of a non-empty stroke.
StartToEndDistance(points) ==
    Hypot(points[1].x * Q, points[1].y * Q,
          points[Len(points)].x * Q, points[Len(points)].y * Q)

\* The scoring terms the loops of calculateCircleScore extract from a
\* non-empty stroke and a circle of positive radius.
Measure(drawnPoints, targetCircle) ==
    LET n     == Len(drawnPoints)
        radii == Radii(drawnPoints, targetCircle)
        stdDev == Sqrt((SumOfSquaredDiffs(radii, targetCircle.radius, n) \div n) * Q)
    IN  [ radius             |-> targetCircle.radius,
          averageDeviation   |-> TotalDeviation(radii, targetCircle.radius, n) \div n,
          normalizedStdDev   |-> (stdDev * RQ) \div targetCircle.radius,
          width              |-> MaxOf(Xs(drawnPoints), n) - MinOf(Xs(drawnPoints), n),
          height             |-> MaxOf(Ys(drawnPoints), n) - MinOf(Ys(drawnPoints), n),
          minRadiusObserved  |-> MinOf(radii, n),
          maxRadiusObserved  |-> Max(0, MaxOf(radii, n)),
          startToEndDistance |-> StartToEndDistance(drawnPoints),
          drawnPathLength    |-> PathLength(drawnPoints, n) ]

(***************************************************************************)
(* The penalty pipeline of calculateCircleScore, on the measured terms m.  *)
(* Every stage returns the value of the variable `penalty` after it.       *)
(***************************************************************************)
\* Math.min(width, height) / Math.max(width, height), in 1/RQ
AspectRatio(m) == (Min(m.width, m.height) * RQ) \div Max(m.width, m.height)

\* (maxRadiusObserved > 0) ? minRadiusObserved / maxRadiusObserved : 0
RadiusRangeRatio(m) ==
    IF m.maxRadiusObserved > 0
    THEN (m.minRadiusObserved * RQ) \div m.maxRadiusObserved
    ELSE 0

\* 2 * Math.PI * targetCircle.radius, with pi = 355/113
TargetCircumference(m) == (710 * m.radius) \div 113

\* VarianceTerm with one point added.
VarianceTermBiased(m) == (m.normalizedStdDev * 50) \div Q + Q

\* normalizedStdDev * 100 * 0.5, in 1/Q point
VarianceTerm(m) == (m.normalizedStdDev * 50) \div Q

\* (1 - aspectRatio) * 100 * 0.4
AspectTerm(m) == ((RQ - AspectRatio(m)) * 40) \div Q

\* (1 - radiusRangeRatio) * 100 * 0.4
RadiusRangeTerm(m) == ((RQ - RadiusRangeRatio(m)) * 40) \div Q

\* startToEndDistance > closureThreshold
NotClosed(v, m) == m.startToEndDistance * 10 > m.radius * ClosureTenths(v)

\* Math.min((startToEndDistance / radius) * 20, 40)
ClosureTerm(m) == Min((m.startToEndDistance * 20 * Q) \div m.radius, 40 * Q)

\* drawnPathLength < circumference * low || drawnPathLength > circumference * high
OutsideBand(v, m) ==
    \/ m.drawnPathLength * 10 < TargetCircumference(m) * BandLowTenths(v)
    \/ m.drawnPathLength * 10 > TargetCircumference(m) * BandHighTenths(v)

\* (1 - Math.min(path / circumference, circumference / path)) * 100 * 0.5
PathTerm(m) ==
    LET lo == Min(m.drawnPathLength, TargetCircumference(m))
        hi == Max(m.drawnPathLength, TargetCircumference(m))
    IN  ((RQ - (lo * RQ) \div hi) * 50) \div Q

\* penalty += Math.min(normalizedStdDev * 100 * 0.5, 40)
PenaltyAfterVariance(m) == Min(VarianceTerm(m), 40 * Q)

\* penalty += (1 - aspectRatio) * 100 * 0.4; penalty = Math.min(penalty, 30)
PenaltyAfterAspect(m) == Min(PenaltyAfterVariance(m) + AspectTerm(m), 30 * Q)

\* penalty += (1 - radiusRangeRatio) * 100 * 0.4; penalty = Math.min(penalty, 30)
PenaltyAfterRange(m) == Min(PenaltyAfterAspect(m) + RadiusRangeTerm(m), 30 * Q)

\* PenaltyAfterClosure with the closure stage left out.
PenaltyAfterClosureIgnored(v, m) == PenaltyAfterRange(m)

\* if (startToEndDistance > closureThreshold) penalty += Math.min(..., 40)
PenaltyAfterClosure(v, m) ==
    IF NotClosed(v, m) THEN PenaltyAfterRange(m) + ClosureTerm(m)
                       ELSE PenaltyAfterRange(m)

\* if (outside band) { penalty += ...; penalty = Math.min(penalty, 50) }
PenaltyAfterPath(v, m) ==
    IF OutsideBand(v, m) THEN Min(PenaltyAfterClosure(v, m) + PathTerm(m), 50 * Q)
                         ELSE PenaltyAfterClosure(v, m)

\* Math.max(0, 100 - normalizedAverageDeviation * 100), in 1/Q point
BaseScore(v, m, maxDimension) ==
    Max(0, 100 * Q - (m.averageDeviation * DeviationFactor(v)) \div maxDimension)

\* finalScore = Math.max(0, baseScore - penalty)
FinalScore(v, m, maxDimension) ==
    Max(0, BaseScore(v, m, maxDimension) - PenaltyAfterPath(v, m))

\* Rejected with the score floor as the only test.
RejectedFloorOnly(v, m, maxDimension) ==
    FinalScore(v, m, maxDimension) < ScoreFloor(v) * Q

\* The final hard rejection.
Rejected(v, m, maxDimension) ==
    \/ FinalScore(v, m, maxDimension) < ScoreFloor(v) * Q
    \/ AspectRatio(m) * 10 < AspectFloorTenths(v) * RQ
    \/ m.normalizedStdDev * 10 > StdDevCeilTenths(v) * RQ
    \/ m.radius * 100 < RadiusRatioHundredths(v) * maxDimension * Q

\* Round left out: the fixed-point score is returned as it is.
RoundMissing(x) == x

\* Math.round of a non-negative fixed-point score: floor(x + 0.5)
Round(x) == (2 * x + Q) \div (2 * Q)

\* The score of the measured terms: from `if (width === 0 ...)` to the end.
ScoreOfTerms(v, m, maxDimension) ==
    IF m.width = 0 \/ m.height = 0 THEN -1
    ELSE IF Rejected(v, m, maxDimension) THEN -1
    ELSE Round(FinalScore(v, m, maxDimension))

\* calculateCircleScoreFull returning 0, as CIRCLE/script.js does, where
\* the entry guard fails.
calculateCircleScoreFullZero(v, drawnPoints, targetCircle, maxDimension) ==
    IF \/ Len(drawnPoints) < MinPoints(v)
       \/ ~targetCircle.present
       \/ targetCircle.radius < MinRadius(v) * Q
    THEN 0
    ELSE ScoreOfTerms(v, Measure(drawnPoints, targetCircle), maxDimension)

\* calculateCircleScore of part_000 and script.js.
calculateCircleScoreFull(v, drawnPoints, targetCircle, maxDimension) ==
    IF \/ Len(drawnPoints) < MinPoints(v)
       \/ ~targetCircle.present
       \/ targetCircle.radius < MinRadius(v) * Q
    THEN -1
    ELSE ScoreOfTerms(v, Measure(drawnPoints, targetCircle), maxDimension)

\* calculateCircleScore of both copies in CIRCLE/script.js.
calculateCircleScoreSimple(drawnPoints, targetCircle, maxDimension) ==
    IF ~targetCircle.present \/ Len(drawnPoints) = 0 THEN 0
    ELSE LET count == Len(drawnPoints)
             radii == Radii(drawnPoints, targetCircle)
             averageDeviation ==
                 TotalDeviation(radii, targetCircle.radius, count) \div count
             \* Math.max(0, 100 - (averageDeviation / (maxDimension / 2)) * 100)
             score == Max(0, 100 * Q - (averageDeviation * 200) \div maxDimension)
             \* length > 1 ? distance : Infinity  >  maxDimension * 0.05
             notClosed ==
                 \/ count = 1
                 \/ StartToEndDistance(drawnPoints) * 20 > maxDimension * Q
         IN  Round(IF notClosed THEN (score * 8) \div 10 ELSE score)

\* calculateCircleScore of the given variant.
calculateCircleScore(v, drawnPoints, targetCircle, maxDimension) ==
    IF v \in {"part_000", "script"}
    THEN calculateCircleScoreFull(v, drawnPoints, targetCircle, maxDimension)
    ELSE calculateCircleScoreSimple(drawnPoints, targetCircle, maxDimension)

(***************************************************************************)
(* Input strokes.  A stroke walks the 36 lattice points of the circle of   *)
(* radius 65 (x*x + y*y = 4225) counter-clockwise around (100, 100), for   *)
(* as many points as asked (wrapping around), deformed by its shape:       *)
(*   size/8    scales the whole ring,                                      *)
(*   squash/4  scales its height only,                                     *)
(*   wobble/8  pulls every second point towards the centre.                *)
(***************************************************************************)
Quadrant == << [x |-> 65, y |-> 0],  [x |-> 63, y |-> 16], [x |-> 60, y |-> 25],
               [x |-> 56, y |-> 33], [x |-> 52, y |-> 39], [x |-> 39, y |-> 52],
               [x |-> 33, y |-> 56], [x |-> 25, y |-> 60], [x |-> 16, y |-> 63] >>

RingLen == 4 * Len(Quadrant)

RECURSIVE Rotate(_, _)
\* p turned k quarter turns
Rotate(p, k) == IF k = 0 THEN p ELSE Rotate([x |-> -p.y, y |-> p.x], k - 1)

RingPoint(i) == Rotate(Quadrant[(i % Len(Quadrant)) + 1], (i \div Len(Quadrant)) % 4)

\* a * num / den, rounded towards zero
Scale(a, num, den) == IF a < 0 THEN -((-a * num) \div den) ELSE (a * num) \div den

StrokePoint(shape, i) ==
    LET p == RingPoint(i)
        w == IF i % 2 = 1 THEN shape.wobble ELSE 8
    IN  [x |-> 100 + Scale(p.x, shape.size * w, 64),
         y |-> 100 + Scale(p.y, shape.size * w * shape.squash, 256)]

Stroke(shape, n) == [i \in 1..n |-> StrokePoint(shape, i - 1)]

(***************************************************************************)
(* Bounds of the inputs.                                                   *)
(***************************************************************************)
\* The longest stroke.
MaxLen == 40

Variants == {"part_000", "script", "circle_1", "circle_2"}

FullVariants == {"part_000", "script"}

Shape(size, squash, wobble) == [size |-> size, squash |-> squash, wobble |-> wobble]

\* Round, flattened (down to a horizontal line), wobbly, small and
\* degenerate (all points coincide) rings.
Shapes ==
    { Shape(8, 4, 8), Shape(8, 3, 8), Shape(8, 2, 8), Shape(8, 1, 8),
      Shape(8, 0, 8), Shape(8, 4, 7), Shape(8, 4, 5), Shape(8, 4, 2),
      Shape(4, 4, 8), Shape(4, 3, 7), Shape(4, 1, 8), Shape(1, 4, 8),
      Shape(0, 4, 8) }

\* A stroke as drawn, or with x and y exchanged (a vertical line when flat).
Strokes(n) ==
    { Stroke(sh, n) : sh \in Shapes }
    \cup { [i \in 1..n |-> [x |-> Stroke(sh, n)[i].y, y |-> Stroke(sh, n)[i].x]] :
             sh \in {Shape(8, 0, 8), Shape(8, 2, 8)} }

\* Stroke lengths around every threshold of the code: 3 (fit), 20 and 30
\* (score), one full ring (closed or not), and the longest.
Lengths ==
    {0, 1, 2, 3} \cup { MinPoints(v) - 1 : v \in FullVariants }
    \cup { MinPoints(v) : v \in FullVariants }
    \cup {RingLen, RingLen + 1, MaxLen}

\* window.innerWidth x window.innerHeight
Viewports == { [w |-> 160, h |-> 120], [w |-> 400, h |-> 300], [w |-> 1400, h |-> 2000] }

\* Pointer coordinates lie on the canvas, which fills the window.
OnCanvas(points, vp) ==
    \A i \in 1..Len(points) :
        /\ points[i].x \in 0..vp.w
        /\ points[i].y \in 0..vp.h

\* const maxDimension = Math.min(window.innerWidth, window.innerHeight)
MaxDimension(vp) == Min(vp.w, vp.h)

\* The circles a caller passes with a stroke: null, the fit of the stroke,
\* the ring the stroke was sampled from, and a circle of 8 pixels.
CircleArgs(fit) ==
    { NullCircle, fit, Circle(100 * Q, 100 * Q, 65 * Q), Circle(100 * Q, 100 * Q, 8 * Q) }

\* The same points in another order.
Reverse(s) == [i \in 1..Len(s) |-> s[Len(s) + 1 - i]]

RotateLeft(s, k) == [i \in 1..Len(s) |-> s[((i - 1 + k) % Len(s)) + 1]]

Reorderings(s) ==
    IF s = <<>> THEN {s} ELSE {Reverse(s), RotateLeft(s, 1), RotateLeft(s, 7 % Len(s))}

(***************************************************************************)
(* State.                                                                  *)
(***************************************************************************)
VARIABLES
    variant,      \* which copy of the game is running
    viewport,     \* window.innerWidth, window.innerHeight
    pc,           \* position of the caller of fit / score
    drawnPoints,  \* the stroke passed to fit and score
    fitted,       \* calculateCircleProperties(drawnPoints)
    refit,        \* calculateCircleProperties of the reordered stroke
    circleArg,    \* the circle passed to calculateCircleScore
    result,       \* what calculateCircleScore returned
    terms1,       \* the terms calculateCircleScore measured on the stroke
    terms2,       \* terms1 with another first-to-last distance
    result2,      \* the score of terms2, or of a second call
    hand,         \* the shape the pointer is tracing
    isDrawing,
    drawingPoints,
    targetCircle,
    highScore,
    scoreBeingDisplayed,
    frames,       \* requestAnimationFrame(drawLoop) callbacks not yet run
    births,       \* animatePerfectCircleBirth animations still running
    audio,        \* Tone.context.state, "starting" while Tone.start() is awaited
    ui,           \* what the page shows
    \* Rock-Paper-Scissor/script.js
    screen,             \* "welcome" or "game": which container is displayed
    seriesLength,
    playerScore,
    computerScore,
    tieScore,
    playerSeriesWins,
    computerSeriesWins,
    roundsPlayed,
    gameMessage,        \* gameMessage.textContent
    gameOverOverlay,    \* gameOverOverlay.classList.contains('visible')
    playAgainBtn,       \* playAgainBtn.style.display is 'block'
    overlayBtns,        \* replaySeriesBtn and mainMenuBtn are displayed
    countdownIntervals, \* the setInterval callbacks of playRound not cleared
    seriesChecks,       \* the setTimeout callbacks of executeRoundLogic not yet run
    lastRound           \* the last call of determineWinner and what it returned

scoreVars == <<pc, drawnPoints, fitted, refit, circleArg, result, terms1, terms2,
               result2>>

gameVars == <<hand, isDrawing, drawingPoints, targetCircle, highScore,
              scoreBeingDisplayed, frames, births, audio, ui>>

rpsVars == <<screen, seriesLength, playerScore, computerScore, tieScore,
             playerSeriesWins, computerSeriesWins, roundsPlayed, gameMessage,
             gameOverOverlay, playAgainBtn, overlayBtns, countdownIntervals,
             seriesChecks, lastRound>>

vars == <<variant, viewport, scoreVars, gameVars, rpsVars>>

NoTerms == [ radius |-> 0, averageDeviation |-> 0, normalizedStdDev |-> 0,
             width |-> 0, height |-> 0, minRadiusObserved |-> 0,
             maxRadiusObserved |-> 0, startToEndDistance |-> 0,
             drawnPathLength |-> 0 ]

\* No requestAnimationFrame(drawLoop) callback is pending.  tracked: the
\* callback whose id animationFrameId holds is pending; stray: how many
\* pending callbacks have an id that animationFrameId no longer holds.
NoFrames == [tracked |-> FALSE, stray |-> 0]

\* The page after DOMContentLoaded: showMessage('Ready to draw a perfect
\* circle!'), loadHighScore(), and in script.js the accuracy meter hidden.
\* The score display and the buttons are as the markup has them: the score
\* display hidden, the start button shown, the try-again button not.
PageLoaded ==
    [ messageDisplay |-> "Ready to draw a perfect circle!",
      liveAccuracy |-> -1,
      centralScoreShown |-> FALSE,
      centralScoreText |-> 0,
      startButton |-> TRUE,
      tryAgainButton |-> FALSE,
      accuracyMeterShown |-> FALSE ]

\* The globals as declared, and loadHighScore() with `stored` in localStorage.
GameLoaded(stored) ==
    /\ hand = Shape(8, 4, 8)
    /\ isDrawing = FALSE
    /\ drawingPoints = <<>>
    /\ targetCircle = NullCircle
    /\ highScore = stored
    /\ scoreBeingDisplayed = 0
    /\ frames = NoFrames
    /\ births = 0
    /\ audio = "suspended"
    /\ ui = PageLoaded

\* No round of Rock-Paper-Scissor has been played.
NoRound == [played |-> FALSE, playerChoice |-> "rock", computerChoice |-> "rock",
            result |-> "tie"]

\* Rock-Paper-Scissor as loaded: the globals as declared, the welcome screen
\* displayed, the message of the markup.
RpsLoaded ==
    /\ screen = "welcome"
    /\ seriesLength = 3
    /\ playerScore = 0
    /\ computerScore = 0
    /\ tieScore = 0
    /\ playerSeriesWins = 0
    /\ computerSeriesWins = 0
    /\ roundsPlayed = 0
    /\ gameMessage = "Select your Weapon"
    /\ gameOverOverlay = FALSE
    /\ playAgainBtn = FALSE
    /\ overlayBtns = FALSE
    /\ countdownIntervals = <<>>
    /\ seriesChecks = <<>>
    /\ lastRound = NoRound

(***************************************************************************)
(* SpecScore: a caller that fits and scores one stroke.                    *)
(***************************************************************************)
InitScore ==
    /\ variant \in Variants
    /\ viewport \in Viewports
    /\ pc = "input"
    /\ \E n \in Lengths : drawnPoints \in Strokes(n)
    /\ OnCanvas(drawnPoints, viewport)
    /\ fitted = NullCircle
    /\ refit = NullCircle
    /\ circleArg = NullCircle
    /\ result = 0
    /\ terms1 = NoTerms
    /\ terms2 = NoTerms
    /\ result2 = 0
    /\ GameLoaded(0)
    /\ RpsLoaded

\* targetCircle = calculateCircleProperties(drawingPoints)
FitStroke ==
    /\ pc = "input"
    /\ fitted' = calculateCircleProperties(drawnPoints)
    /\ pc' = "fitted"
    /\ UNCHANGED <<rpsVars, variant, viewport, drawnPoints, refit, circleArg, result,
                   terms1, terms2, result2>>
    /\ UNCHANGED gameVars

\* The fit of the same points in another order.
FitReordered ==
    /\ pc = "fitted"
    /\ \E s \in Reorderings(drawnPoints) : refit' = calculateCircleProperties(s)
    /\ pc' = "refitted"
    /\ UNCHANGED <<rpsVars, variant, viewport, drawnPoints, fitted, circleArg, result,
                   terms1, terms2, result2>>
    /\ UNCHANGED gameVars

\* score = calculateCircleScore(drawingPoints, targetCircle)
ScoreStroke ==
    /\ pc = "fitted"
    /\ \E c \in CircleArgs(fitted) :
          /\ circleArg' = c
          /\ result' = calculateCircleScore(variant, drawnPoints, c,
                                            MaxDimension(viewport))
    /\ pc' = "scored"
    /\ UNCHANGED <<rpsVars, variant, viewport, drawnPoints, fitted, refit, terms1, terms2,
                   result2>>
    /\ UNCHANGED gameVars

\* ScoreAgain with a scorer that takes the last point off the stroke it is
\* given before it scores it.
ScoreAgainPopped ==
    /\ pc = "scored"
    /\ drawnPoints' = SubSeq(drawnPoints, 1, Len(drawnPoints) - 1)
    /\ result2' = calculateCircleScore(variant, drawnPoints', circleArg,
                                       MaxDimension(viewport))
    /\ pc' = "scoredAgain"
    /\ UNCHANGED <<rpsVars, variant, viewport, fitted, refit, circleArg, result, terms1, terms2>>
    /\ UNCHANGED gameVars

\* A second call with the same stroke, circle and viewport.
ScoreAgain ==
    /\ pc = "scored"
    /\ result2' = calculateCircleScore(variant, drawnPoints, circleArg,
                                       MaxDimension(viewport))
    /\ pc' = "scoredAgain"
    /\ UNCHANGED <<rpsVars, variant, viewport, drawnPoints, fitted, refit, circleArg, result,
                   terms1, terms2>>
    /\ UNCHANGED gameVars

\* The stroke passed the entry guard of the full scorer, so that its terms
\* were measured.
Measured ==
    /\ variant \in FullVariants
    /\ Len(drawnPoints) >= MinPoints(variant)
    /\ circleArg.present
    /\ circleArg.radius >= MinRadius(variant) * Q

\* The score of an otherwise-identical stroke whose first and last point
\* are d apart.
ScoreReclosed ==
    /\ pc = "scored"
    /\ Measured
    /\ terms1' = Measure(drawnPoints, circleArg)
    /\ \E d \in {0, circleArg.radius \div 4, circleArg.radius \div 2,
                 circleArg.radius, 2 * circleArg.radius} :
          terms2' = [terms1' EXCEPT !.startToEndDistance = d]
    /\ result2' = ScoreOfTerms(variant, terms2', MaxDimension(viewport))
    /\ pc' = "rescored"
    /\ UNCHANGED <<rpsVars, variant, viewport, drawnPoints, fitted, refit, circleArg, result>>
    /\ UNCHANGED gameVars

NextScore == FitStroke \/ FitReordered \/ ScoreStroke \/ ScoreAgain \/ ScoreReclosed

SpecScore == InitScore /\ [][NextScore]_vars

(***************************************************************************)
(* Spec: the game of part_000 and script.js, driven by pointer events,     *)
(* button clicks and animation frames.                                     *)
(***************************************************************************)
\* Most requestAnimationFrame(drawLoop) callbacks pending with a lost id.
MaxStray == 1

\* Most birth animations running at once.
MaxBirths == 1

\* The hand traces a round ring or a flattened one,
HandShapes == { Shape(8, 4, 8), Shape(8, 3, 8) }

\* two lattice points further with every pointer event: 19 points close the
\* ring, 37 points close it a second time.
HandPoint(shape, i) == StrokePoint(shape, 2 * i)

\* The stroke lengths at which a frame is painted or the pointer is lifted
\* (or cancelled): one point short of what the variant asks for, and two
\* rings.
SampledLengths(v) == IF v = "part_000" THEN {29, RingLen + 1} ELSE {19, RingLen + 1}

\* What loadHighScore() reads from localStorage under 'perfectCircleHighScore':
\* nothing (highScore stays 0), or the high score of an earlier visit.
StoredHighScores == {0, 70}

\* drawLoop scoring from half as many points.
LiveMinPointsLowered(v) == IF v = "part_000" THEN 15 ELSE 10

\* drawLoop: if (drawingPoints.length >= 30)   [20 in script.js]
LiveMinPoints(v) == IF v = "part_000" THEN 30 ELSE 20

\* drawLoop: if (targetCircle && targetCircle.radius > 10)   [5 in script.js]
LiveMinRadius(v) == IF v = "part_000" THEN 10 ELSE 5

showMessage(u, text) == [u EXCEPT !.messageDisplay = text, !.liveAccuracy = -1]

\* showMessage(`Accuracy: ${provisionalScore}%`)
showAccuracy(u, provisionalScore) ==
    [u EXCEPT !.messageDisplay = "Accuracy", !.liveAccuracy = provisionalScore]

\* saveHighScore storing every score it is given.
saveHighScoreAlways(score) == score

\* The high score after saveHighScore(score).
saveHighScore(score) == IF score > highScore THEN score ELSE highScore

\* What saveHighScore(score) of script.js returns.
newRecord(score) == score > highScore

\* displayScore of part_000, displayScoreFinalState of script.js
displayScore(u, score) ==
    [showMessage(u, "") EXCEPT !.centralScoreShown = TRUE, !.centralScoreText = score]

\* updateAccuracyMeter(currentAccuracy), called while drawing is `drawing`
updateAccuracyMeter(u, drawing, currentAccuracy) ==
    IF ~drawing \/ currentAccuracy = -1
    THEN [u EXCEPT !.accuracyMeterShown = FALSE]
    ELSE [u EXCEPT !.accuracyMeterShown = TRUE]

\* What resetGame() leaves on the page.
resetGamePage(u) ==
    [u EXCEPT !.centralScoreShown = FALSE,
              !.startButton = TRUE, !.tryAgainButton = FALSE,
              !.messageDisplay = "Ready to draw a perfect circle?",
              !.liveAccuracy = -1, !.accuracyMeterShown = FALSE]

\* What startGame() leaves on the page; it runs with isDrawing just set to
\* false, so that its updateAccuracyMeter(0) hides the meter.
startGamePage(v, u) ==
    [u EXCEPT !.centralScoreShown = FALSE,
              !.startButton = FALSE, !.tryAgainButton = FALSE,
              !.messageDisplay =
                  IF v = "part_000"
                  THEN "Draw a perfect circle! Click or touch to start."
                  ELSE "Draw a perfect circle!",
              !.liveAccuracy = -1, !.accuracyMeterShown = FALSE]

Init ==
    /\ variant \in FullVariants
    /\ viewport = [w |-> 400, h |-> 300]
    /\ pc = "game"
    /\ drawnPoints = <<>>
    /\ fitted = NullCircle
    /\ refit = NullCircle
    /\ circleArg = NullCircle
    /\ result = 0
    /\ terms1 = NoTerms
    /\ terms2 = NoTerms
    /\ result2 = 0
    /\ \E stored \in StoredHighScores : GameLoaded(stored)
    /\ RpsLoaded

\* pointerdown on the canvas.  Nothing in the handler looks at isDrawing
\* before it starts the stroke over, and every call requests a frame.
handlePointerDown ==
    /\ frames.tracked => frames.stray < MaxStray
    /\ \E shape \in HandShapes :
          /\ hand' = shape
          /\ drawingPoints' = << HandPoint(shape, 0) >>
    /\ isDrawing' = TRUE
    /\ targetCircle' = IF variant = "script" /\ ~isDrawing
                       THEN NullCircle          \* resetGame(); startGame();
                       ELSE targetCircle
    /\ ui' = [ui EXCEPT !.messageDisplay = "Drawing...", !.liveAccuracy = -1,
                        !.startButton = FALSE, !.tryAgainButton = FALSE,
                        !.centralScoreShown = FALSE,
                        !.accuracyMeterShown = (variant = "script")]
    /\ frames' = [tracked |-> TRUE,
                  stray |-> frames.stray + (IF frames.tracked THEN 1 ELSE 0)]
    /\ UNCHANGED <<rpsVars, variant, viewport, scoreVars, highScore, scoreBeingDisplayed,
                   births, audio>>

\* handlePointerMove without its guard: a move with no gesture active starts
\* a stroke.
handlePointerMoveUnguarded ==
    /\ Len(drawingPoints) <= RingLen
    /\ drawingPoints' = Append(drawingPoints, HandPoint(hand, Len(drawingPoints)))
    /\ isDrawing' = TRUE
    /\ UNCHANGED <<rpsVars, variant, viewport, scoreVars, hand, targetCircle,
                   highScore, scoreBeingDisplayed, frames, births, audio, ui>>

\* handlePointerMove that records the point whether or not a gesture is
\* active.
handlePointerMoveAlways ==
    /\ Len(drawingPoints) <= RingLen
    /\ drawingPoints' = Append(drawingPoints, HandPoint(hand, Len(drawingPoints)))
    /\ UNCHANGED <<rpsVars, variant, viewport, scoreVars, hand, isDrawing, targetCircle,
                   highScore, scoreBeingDisplayed, frames, births, audio, ui>>

\* pointermove: the next point of the shape the hand traces.
handlePointerMove ==
    /\ isDrawing
    /\ Len(drawingPoints) <= RingLen
    /\ drawingPoints' = Append(drawingPoints, HandPoint(hand, Len(drawingPoints)))
    /\ UNCHANGED <<rpsVars, variant, viewport, scoreVars, hand, isDrawing, targetCircle,
                   highScore, scoreBeingDisplayed, frames, births, audio, ui>>

\* The fit and the score finishDrawing and drawLoop compute from the stroke.
FitAndScore ==
    LET circle == calculateCircleProperties(drawingPoints)
    IN  { [circle |-> circle,
           score |-> calculateCircleScore(variant, drawingPoints, circle,
                                          MaxDimension(viewport))] }

\* finishDrawing() of part_000, entered with isDrawing true.
finishDrawingPart000 ==
    /\ isDrawing' = FALSE
    /\ frames' = [frames EXCEPT !.tracked = FALSE]   \* cancelAnimationFrame
    /\ \E c \in FitAndScore :
        /\ targetCircle' = c.circle
        /\ IF c.score = -1
           THEN /\ ui' = [showMessage(ui, "Incorrect Shape! Please draw a circle.")
                              EXCEPT !.tryAgainButton = TRUE]
                /\ highScore' = highScore
           ELSE /\ ui' = [displayScore(ui, c.score) EXCEPT !.tryAgainButton = TRUE]
                /\ highScore' = saveHighScore(c.score)
        /\ UNCHANGED <<scoreBeingDisplayed, births>>

\* finishDrawing() of script.js, entered with isDrawing true.  A score of
\* 80 or more starts the birth animation, which displays the score when it
\* ends; a lower score is displayed at once.
finishDrawingScript ==
    /\ isDrawing' = FALSE
    /\ frames' = [frames EXCEPT !.tracked = FALSE]   \* cancelAnimationFrame
    /\ \E c \in FitAndScore :
        LET hidden == [ui EXCEPT !.accuracyMeterShown = FALSE]
        IN  /\ c.score >= 80 => births < MaxBirths
            /\ targetCircle' = c.circle
            /\ scoreBeingDisplayed' = c.score
            /\ IF c.score = -1
               THEN /\ ui' = [showMessage(hidden, "Try again! Your drawing wasn't quite a circle.")
                                  EXCEPT !.startButton = TRUE]
                    /\ UNCHANGED <<highScore, births>>
               ELSE /\ highScore' = saveHighScore(c.score)
                    /\ IF c.score >= 80
                       THEN /\ births' = births + 1
                            /\ ui' = [hidden EXCEPT !.startButton = TRUE]
                       ELSE /\ births' = births
                            /\ ui' = [displayScore(hidden, c.score)
                                          EXCEPT !.startButton = TRUE]

\* handlePointerUp and finishDrawing without their isDrawing guards.
handlePointerUpUnguarded ==
    /\ Len(drawingPoints) \in SampledLengths(variant)
    /\ IF variant = "part_000" THEN finishDrawingPart000 ELSE finishDrawingScript
    /\ UNCHANGED <<rpsVars, variant, viewport, scoreVars, hand, drawingPoints, audio>>

\* pointerup and pointercancel share the handler: if (isDrawing) finishDrawing()
handlePointerUp ==
    /\ isDrawing
    /\ Len(drawingPoints) \in SampledLengths(variant)
    /\ IF variant = "part_000" THEN finishDrawingPart000 ELSE finishDrawingScript
    /\ UNCHANGED <<rpsVars, variant, viewport, scoreVars, hand, drawingPoints, audio>>

\* The pointerup listener of the canvas.
pointerup == handlePointerUp

\* A pointercancel that drops the gesture without scoring it.
pointercancelDiscards ==
    /\ isDrawing
    /\ Len(drawingPoints) \in SampledLengths(variant)
    /\ isDrawing' = FALSE
    /\ frames' = [frames EXCEPT !.tracked = FALSE]
    /\ UNCHANGED <<rpsVars, variant, viewport, scoreVars, hand, drawingPoints, targetCircle,
                   highScore, scoreBeingDisplayed, births, audio, ui>>

\* The pointercancel listener of the canvas: the same handler.
pointercancel == handlePointerUp

\* The last frame of birthAnimationLoop: displayScoreFinalState(scoreBeingDisplayed).
\* The frames before it only paint the canvas.
birthAnimationLoop ==
    /\ births > 0
    /\ births' = births - 1
    /\ ui' = displayScore(ui, scoreBeingDisplayed)
    /\ UNCHANGED <<rpsVars, variant, viewport, scoreVars, hand, isDrawing, drawingPoints,
                   targetCircle, highScore, scoreBeingDisplayed, frames, audio>>

\* What drawLoop shows while drawing, c the fit and score of the stroke.
drawLoopPage(c) ==
    LET meter(u, a) == IF variant = "script" THEN updateAccuracyMeter(u, TRUE, a) ELSE u
    IN  IF c.circle.present /\ c.circle.radius > LiveMinRadius(variant) * Q
        THEN IF c.score # -1
             THEN showAccuracy(meter(ui, c.score), c.score)
             ELSE showMessage(meter(ui, c.score),
                              IF variant = "part_000"
                              THEN "Keep Drawing... (Try to form a circle!)"
                              ELSE "Keep Drawing... (Form a closed shape!)")
        ELSE showMessage(meter(ui, 0),
                         IF variant = "part_000"
                         THEN "Drawing... (Need more points for a circle!)"
                         ELSE "Drawing... (Expand your circle!)")

\* A pending drawLoop callback runs: the one animationFrameId names, or one
\* whose id was overwritten.  While drawing it refits, shows the live
\* accuracy, and requests the next frame, whose id animationFrameId takes.
drawLoop ==
    /\ isDrawing => Len(drawingPoints) \in SampledLengths(variant)
    /\ \E fired \in {"tracked", "stray"} :
          /\ fired = "tracked" => frames.tracked
          /\ fired = "stray" => frames.stray > 0
          /\ frames' =
                IF isDrawing
                THEN IF fired = "tracked"
                     THEN frames
                     ELSE [tracked |-> TRUE,
                           stray |-> frames.stray - 1 + (IF frames.tracked THEN 1 ELSE 0)]
                ELSE IF fired = "tracked"
                     THEN [frames EXCEPT !.tracked = FALSE]
                     ELSE [frames EXCEPT !.stray = frames.stray - 1]
    /\ IF ~isDrawing
       THEN UNCHANGED <<ui, targetCircle>>
       ELSE IF Len(drawingPoints) >= LiveMinPoints(variant)
            THEN \E c \in FitAndScore :
                    /\ targetCircle' = c.circle
                    /\ ui' = drawLoopPage(c)
            ELSE /\ targetCircle' = targetCircle
                 /\ ui' = showMessage(IF variant = "script"
                                      THEN updateAccuracyMeter(ui, TRUE, 0)
                                      ELSE ui,
                                      IF variant = "part_000"
                                      THEN "Drawing... (Start forming a circle!)"
                                      ELSE "Drawing... (Need more points for a circle!)")
    /\ UNCHANGED <<rpsVars, variant, viewport, scoreVars, hand, isDrawing, drawingPoints,
                   highScore, scoreBeingDisplayed, births, audio>>

\* resetGame(); startGame(); as the start button of script.js and its
\* pointerdown run them.
resetAndStart ==
    /\ drawingPoints' = <<>>
    /\ isDrawing' = FALSE
    /\ targetCircle' = NullCircle
    /\ ui' = startGamePage(variant, resetGamePage(ui))

\* A click on the start button.  part_000: startGame().  script.js:
\* setupAudio().then(() => { resetGame(); startGame(); }), where setupAudio
\* awaits Tone.start() unless the audio context is running already.
startButtonClick ==
    /\ ui.startButton
    /\ IF variant = "part_000"
       THEN /\ drawingPoints' = <<>>
            /\ isDrawing' = FALSE
            /\ ui' = startGamePage(variant, ui)
            /\ UNCHANGED <<targetCircle, audio>>
       ELSE IF audio = "running"
            THEN resetAndStart /\ audio' = audio
            ELSE /\ audio' = "starting"
                 /\ UNCHANGED <<drawingPoints, isDrawing, targetCircle, ui>>
    /\ UNCHANGED <<rpsVars, variant, viewport, scoreVars, hand, highScore, scoreBeingDisplayed,
                   frames, births>>

\* Tone.start() resolves: every waiting click's callback runs.
audioStarted ==
    /\ audio = "starting"
    /\ audio' = "running"
    /\ resetAndStart
    /\ UNCHANGED <<rpsVars, variant, viewport, scoreVars, hand, highScore, scoreBeingDisplayed,
                   frames, births>>

\* A click on the try-again button of part_000: resetGame().
tryAgainButtonClick ==
    /\ variant = "part_000"
    /\ ui.tryAgainButton
    /\ drawingPoints' = <<>>
    /\ isDrawing' = FALSE
    /\ targetCircle' = NullCircle
    /\ ui' = resetGamePage(ui)
    /\ UNCHANGED <<rpsVars, variant, viewport, scoreVars, hand, highScore, scoreBeingDisplayed,
                   frames, births, audio>>

Next ==
    \/ handlePointerDown
    \/ handlePointerMove
    \/ pointerup
    \/ pointercancel
    \/ drawLoop
    \/ birthAnimationLoop
    \/ startButtonClick
    \/ audioStarted
    \/ tryAgainButtonClick

Spec == Init /\ [][Next]_vars

(***************************************************************************)
(* SpecCircle: the game of CIRCLE/script.js (its first copy).  It has no   *)
(* live scoring, no high score and no animation; a gesture of fewer than   *)
(* 50 points is turned away before the fit.  The window can be resized.    *)
(***************************************************************************)
\* finishDrawing: if (drawingPoints.length < 50)
CircleMinPoints == 50

\* The lengths at which the pointer is lifted.
CircleSampledLengths == {3, CircleMinPoints - 1, CircleMinPoints}

\* The sizes the window takes.
CircleViewports == { [w |-> 400, h |-> 300], [w |-> 300, h |-> 400] }

\* The hand goes around the ring point by point.
CirclePoint(shape, i) == StrokePoint(shape, i)

InitCircle ==
    /\ variant = "circle_1"
    /\ viewport \in CircleViewports
    /\ pc = "game"
    /\ drawnPoints = <<>>
    /\ fitted = NullCircle
    /\ refit = NullCircle
    /\ circleArg = NullCircle
    /\ result = 0
    /\ terms1 = NoTerms
    /\ terms2 = NoTerms
    /\ result2 = 0
    /\ GameLoaded(0)
    /\ RpsLoaded

\* pointerdown on the canvas: starts the stroke and requests a frame;
\* targetCircle is left as it is.
CircleHandlePointerDown ==
    /\ frames.tracked => frames.stray < MaxStray
    /\ \E shape \in HandShapes :
          /\ hand' = shape
          /\ drawingPoints' = << CirclePoint(shape, 0) >>
    /\ isDrawing' = TRUE
    /\ ui' = [ui EXCEPT !.messageDisplay = "Drawing...",
                        !.startButton = FALSE, !.tryAgainButton = FALSE,
                        !.centralScoreShown = FALSE]
    /\ frames' = [tracked |-> TRUE,
                  stray |-> frames.stray + (IF frames.tracked THEN 1 ELSE 0)]
    /\ UNCHANGED <<rpsVars, variant, viewport, scoreVars, targetCircle, highScore,
                   scoreBeingDisplayed, births, audio>>

\* pointermove: if (!isDrawing) return; drawingPoints.push(point)
CircleHandlePointerMove ==
    /\ isDrawing
    /\ Len(drawingPoints) < CircleMinPoints
    /\ drawingPoints' = Append(drawingPoints, CirclePoint(hand, Len(drawingPoints)))
    /\ UNCHANGED <<rpsVars, variant, viewport, scoreVars, hand, isDrawing, targetCircle,
                   highScore, scoreBeingDisplayed, frames, births, audio, ui>>

\* finishDrawing(), entered with isDrawing true.
CircleFinishDrawing ==
    /\ isDrawing' = FALSE
    /\ frames' = [frames EXCEPT !.tracked = FALSE]   \* cancelAnimationFrame
    /\ IF Len(drawingPoints) < CircleMinPoints
       THEN /\ ui' = [showMessage(ui, "Not enough points to form a circle. Try drawing more!")
                         EXCEPT !.tryAgainButton = TRUE]
            /\ targetCircle' = targetCircle
       ELSE \E c \in FitAndScore :
               /\ targetCircle' = c.circle
               /\ IF ~c.circle.present
                  THEN ui' = [showMessage(ui, "Could not detect a circle. Try again!")
                                 EXCEPT !.tryAgainButton = TRUE]
                  ELSE ui' = [displayScore(ui, c.score) EXCEPT !.tryAgainButton = TRUE]

\* pointerup and pointercancel: if (isDrawing) finishDrawing()
CircleHandlePointerUp ==
    /\ isDrawing
    /\ Len(drawingPoints) \in CircleSampledLengths
    /\ CircleFinishDrawing
    /\ UNCHANGED <<rpsVars, variant, viewport, scoreVars, hand, drawingPoints, highScore,
                   scoreBeingDisplayed, births, audio>>

\* A pending drawLoop callback runs: if (isDrawing) it paints the path and
\* requests the next frame.
CircleDrawLoop ==
    /\ isDrawing => Len(drawingPoints) \in CircleSampledLengths
    /\ \E fired \in {"tracked", "stray"} :
          /\ fired = "tracked" => frames.tracked
          /\ fired = "stray" => frames.stray > 0
          /\ frames' =
                IF isDrawing
                THEN IF fired = "tracked"
                     THEN frames
                     ELSE [tracked |-> TRUE,
                           stray |-> frames.stray - 1 + (IF frames.tracked THEN 1 ELSE 0)]
                ELSE IF fired = "tracked"
                     THEN [frames EXCEPT !.tracked = FALSE]
                     ELSE [frames EXCEPT !.stray = frames.stray - 1]
    /\ frames' # frames
    /\ UNCHANGED <<rpsVars, variant, viewport, scoreVars, hand, isDrawing, drawingPoints,
                   targetCircle, highScore, scoreBeingDisplayed, births, audio, ui>>

\* A click on the start button: startGame().
CircleStartGame ==
    /\ ui.startButton
    /\ drawingPoints' = <<>>
    /\ isDrawing' = FALSE
    /\ ui' = [ui EXCEPT !.centralScoreShown = FALSE,
                        !.startButton = FALSE, !.tryAgainButton = FALSE,
                        !.messageDisplay = "Draw a perfect circle! Click or touch to start."]
    /\ UNCHANGED <<rpsVars, variant, viewport, scoreVars, hand, targetCircle, highScore,
                   scoreBeingDisplayed, frames, births, audio>>

\* A click on the try-again button: resetGame().
CircleResetGame ==
    /\ ui.tryAgainButton
    /\ drawingPoints' = <<>>
    /\ isDrawing' = FALSE
    /\ targetCircle' = NullCircle
    /\ ui' = [ui EXCEPT !.centralScoreShown = FALSE,
                        !.startButton = TRUE, !.tryAgainButton = FALSE,
                        !.messageDisplay = "Ready to draw a perfect circle?"]
    /\ UNCHANGED <<rpsVars, variant, viewport, scoreVars, hand, highScore,
                   scoreBeingDisplayed, frames, births, audio>>

\* The window is resized: resizeCanvases() sizes the canvases and paints,
\* while drawing, the path, and otherwise, if (targetCircle), that circle
\* around drawingPoints.
resizeCanvases ==
    /\ \E vp \in CircleViewports : vp # viewport /\ viewport' = vp
    /\ UNCHANGED <<rpsVars, variant, scoreVars, gameVars>>

NextCircle ==
    \/ CircleHandlePointerDown
    \/ CircleHandlePointerMove
    \/ CircleHandlePointerUp
    \/ CircleDrawLoop
    \/ CircleStartGame
    \/ CircleResetGame
    \/ resizeCanvases

SpecCircle == InitCircle /\ [][NextCircle]_vars

(***************************************************************************)
(* SpecRPS: the game of Rock-Paper-Scissor/script.js.  One step per click  *)
(* and per timer callback; the computer's choice is any of the three.      *)
(***************************************************************************)
\* Rounds of one series after which no further choice is taken.
MaxRounds == 8

\* Countdown intervals that can be running together.
MaxTimers == 2

\* const choices = ['rock', 'paper', 'scissors']
choices == {"rock", "paper", "scissors"}

\* The values of the options of seriesLengthSelect.
SeriesLengths == {1, 3, 5, 7}

\* What does not belong to Rock-Paper-Scissor.
circleVars == <<variant, viewport, scoreVars, gameVars>>

\* determineWinner with paper losing to rock.
determineWinnerPaperLoses(playerChoice, computerChoice) ==
    IF playerChoice = computerChoice
    THEN "tie"
    ELSE IF \/ (playerChoice = "rock" /\ computerChoice = "scissors")
            \/ (playerChoice = "rock" /\ computerChoice = "paper")
            \/ (playerChoice = "scissors" /\ computerChoice = "paper")
    THEN "win"
    ELSE "lose"

determineWinner(playerChoice, computerChoice) ==
    IF playerChoice = computerChoice
    THEN "tie"
    ELSE IF \/ (playerChoice = "rock" /\ computerChoice = "scissors")
            \/ (playerChoice = "paper" /\ computerChoice = "rock")
            \/ (playerChoice = "scissors" /\ computerChoice = "paper")
    THEN "win"
    ELSE "lose"

\* The wins that end a series, rounded down.
targetWinsFloor == seriesLength \div 2

\* const targetWins = Math.ceil(seriesLength / 2)
targetWins == (seriesLength + 1) \div 2

\* gameMessage.textContent.includes("Select your Weapon"): of the texts the
\* script and the markup put there, only this one includes it (the player's
\* name, at most 15 characters, cannot).
IncludesSelectYourWeapon(text) == text = "Select your Weapon"

\* The text the interval callback shows for a countdown above -1.
CountdownText(countdown) ==
    IF countdown = 3 THEN "Ready? 3..."
    ELSE IF countdown = 2 THEN "2..."
    ELSE IF countdown = 1 THEN "1..."
    ELSE "GO!"

\* The text executeRoundLogic shows for a result.
RoundText(r) ==
    IF r = "win" THEN "Player Wins Round!"
    ELSE IF r = "lose" THEN "Computer Wins Round!"
    ELSE "It's a Tie!"

\* s without its i-th element.
RemoveAt(s, i) == [j \in 1..(Len(s) - 1) |-> IF j < i THEN s[j] ELSE s[j + 1]]

InitRPS ==
    /\ variant = "Rock-Paper-Scissor"
    /\ viewport = [w |-> 400, h |-> 300]
    /\ pc = "game"
    /\ drawnPoints = <<>>
    /\ fitted = NullCircle
    /\ refit = NullCircle
    /\ circleArg = NullCircle
    /\ result = 0
    /\ terms1 = NoTerms
    /\ terms2 = NoTerms
    /\ result2 = 0
    /\ GameLoaded(0)
    /\ RpsLoaded

\* resetGameArea()
resetGameArea ==
    /\ playAgainBtn' = FALSE
    /\ gameMessage' = "Select your Weapon"
    /\ overlayBtns' = FALSE

\* resetAllScoresAndSeries()
resetAllScoresAndSeries ==
    /\ playerScore' = 0
    /\ computerScore' = 0
    /\ tieScore' = 0
    /\ playerSeriesWins' = 0
    /\ computerSeriesWins' = 0
    /\ roundsPlayed' = 0
    /\ resetGameArea

\* A click on the start button of the welcome screen.
startGameBtnClick ==
    /\ screen = "welcome"
    /\ \E value \in SeriesLengths : seriesLength' = value
    /\ screen' = "game"
    /\ resetAllScoresAndSeries
    /\ UNCHANGED <<circleVars, gameOverOverlay, countdownIntervals, seriesChecks,
                   lastRound>>

\* playRound(playerChoice): the countdown starts at 3 and an interval is set.
playRound(playerChoice) ==
    /\ playAgainBtn' = FALSE
    /\ gameMessage' = CountdownText(3)
    /\ countdownIntervals' =
          Append(countdownIntervals, [countdown |-> 3, playerChoice |-> playerChoice])
    /\ UNCHANGED <<circleVars, screen, seriesLength, playerScore, computerScore,
                   tieScore, playerSeriesWins, computerSeriesWins, roundsPlayed,
                   gameOverOverlay, overlayBtns, seriesChecks, lastRound>>

\* The listener of the choice buttons taking every click.
choiceBtnClickUnguarded ==
    /\ screen = "game"
    /\ roundsPlayed + Len(countdownIntervals) < MaxRounds
    /\ Len(countdownIntervals) < MaxTimers
    /\ \E button \in choices : playRound(button)

\* A click on one of the choice buttons.
choiceBtnClick ==
    /\ screen = "game"
    /\ \E button \in choices :
          IF ~gameOverOverlay /\ IncludesSelectYourWeapon(gameMessage)
          THEN /\ roundsPlayed < MaxRounds
               /\ Len(countdownIntervals) < MaxTimers
               /\ playRound(button)
          ELSE UNCHANGED vars

\* executeRoundLogic(playerChoice), up to its setTimeout.
executeRoundLogic(playerChoice) ==
    \E computerChoice \in choices :
       \E r \in {determineWinner(playerChoice, computerChoice)} :
          /\ roundsPlayed' = roundsPlayed + 1
          /\ playerScore' = playerScore + (IF r = "win" THEN 1 ELSE 0)
          /\ computerScore' = computerScore + (IF r = "lose" THEN 1 ELSE 0)
          /\ tieScore' = tieScore + (IF r = "win" \/ r = "lose" THEN 0 ELSE 1)
          /\ gameMessage' = RoundText(r)
          /\ seriesChecks' = Append(seriesChecks, r)
          /\ lastRound' = [played |-> TRUE, playerChoice |-> playerChoice,
                           computerChoice |-> computerChoice, result |-> r]

\* The callback of a countdown interval, every 800 ms.
countdownTick ==
    /\ \E i \in DOMAIN countdownIntervals :
          LET countdown == countdownIntervals[i].countdown - 1
          IN  IF countdown >= 0
              THEN /\ gameMessage' = CountdownText(countdown)
                   /\ countdownIntervals' =
                         [countdownIntervals EXCEPT ![i].countdown = countdown]
                   /\ UNCHANGED <<roundsPlayed, playerScore, computerScore, tieScore,
                                  seriesChecks, lastRound>>
              ELSE /\ countdownIntervals' = RemoveAt(countdownIntervals, i)
                   /\ executeRoundLogic(countdownIntervals[i].playerChoice)
    /\ UNCHANGED <<circleVars, screen, seriesLength, playerSeriesWins,
                   computerSeriesWins, gameOverOverlay, playAgainBtn, overlayBtns>>

\* The callback executeRoundLogic set, 500 ms after the round: the check for
\* the end of the series.
seriesCheck ==
    /\ \E i \in DOMAIN seriesChecks :
          seriesChecks' = RemoveAt(seriesChecks, i)
    /\ \E target \in {targetWins} :
          LET seriesWinner == IF playerScore >= target THEN "player"
                              ELSE IF computerScore >= target THEN "computer"
                              ELSE "null"
          IN  IF seriesWinner # "null"
              THEN /\ playerSeriesWins' =
                         playerSeriesWins + (IF seriesWinner = "player" THEN 1 ELSE 0)
                   /\ computerSeriesWins' =
                         computerSeriesWins + (IF seriesWinner = "computer" THEN 1 ELSE 0)
                   /\ gameOverOverlay' = TRUE
                   /\ overlayBtns' = TRUE
                   /\ playerScore' = 0
                   /\ computerScore' = 0
                   /\ tieScore' = 0
                   /\ roundsPlayed' = 0
                   /\ UNCHANGED <<gameMessage, playAgainBtn>>
              ELSE /\ gameMessage' = "Round Over. Select Next Weapon!"
                   /\ playAgainBtn' = TRUE
                   /\ UNCHANGED <<playerSeriesWins, computerSeriesWins, gameOverOverlay,
                                  overlayBtns, playerScore, computerScore, tieScore,
                                  roundsPlayed>>
    /\ UNCHANGED <<circleVars, screen, seriesLength, countdownIntervals, lastRound>>

\* A click on "Play Next Round".
playAgainBtnClick ==
    /\ screen = "game"
    /\ playAgainBtn
    /\ resetGameArea
    /\ UNCHANGED <<circleVars, screen, seriesLength, playerScore, computerScore,
                   tieScore, playerSeriesWins, computerSeriesWins, roundsPlayed,
                   gameOverOverlay, countdownIntervals, seriesChecks, lastRound>>

\* A click on "Play Again" of the overlay.
replaySeriesBtnClick ==
    /\ screen = "game"
    /\ overlayBtns
    /\ gameOverOverlay' = FALSE
    /\ resetAllScoresAndSeries
    /\ UNCHANGED <<circleVars, screen, seriesLength, countdownIntervals,
                   seriesChecks, lastRound>>

\* A click on "Main Menu" of the overlay.
mainMenuBtnClick ==
    /\ screen = "game"
    /\ overlayBtns
    /\ gameOverOverlay' = FALSE
    /\ screen' = "welcome"
    /\ resetAllScoresAndSeries
    /\ UNCHANGED <<circleVars, seriesLength, countdownIntervals, seriesChecks,
                   lastRound>>

NextRPS ==
    \/ startGameBtnClick
    \/ choiceBtnClick
    \/ countdownTick
    \/ seriesCheck
    \/ playAgainBtnClick
    \/ replaySeriesBtnClick
    \/ mainMenuBtnClick

SpecRPS == InitRPS /\ [][NextRPS]_vars

(***************************************************************************)
(* Claims about the fitter, under SpecScore.                               *)
(***************************************************************************)
Collinear(points) ==
    \/ \A i \in 1..Len(points) : points[i].x = points[1].x
    \/ \A i \in 1..Len(points) : points[i].y = points[1].y

\* C1: calculateCircleProperties returns null for a stroke of 0, 1 or 2
\* points and a circle for every stroke of 3 or more points, collinear and
\* coincident points included.
C1_FitNullIffShort ==
    pc # "input" => (fitted.present <=> Len(drawnPoints) >= 3)

\* A fitted stroke of 3 or more collinear points.
C1_Witness ==
    /\ pc = "fitted"
    /\ Len(drawnPoints) >= 3
    /\ Collinear(drawnPoints)
    /\ fitted.present

RECURSIVE SeqSum(_, _)
\* s[1] + ... + s[i]
SeqSum(s, i) == IF i = 0 THEN 0 ELSE SeqSum(s, i - 1) + s[i]

\* C2: for n >= 3 points the fitted centre is (sum of x / n, sum of y / n),
\* the fitted radius is the sum of the points' distances to that centre
\* divided by n, and the same points in another order give the same circle.
C2_FitIsCentroidMeanRadius ==
    LET n == Len(drawnPoints)
    IN  /\ (pc # "input" /\ n >= 3) =>
              /\ fitted.x = (SeqSum(Xs(drawnPoints), n) * Q) \div n
              /\ fitted.y = (SeqSum(Ys(drawnPoints), n) * Q) \div n
              /\ fitted.radius =
                    SeqSum([i \in 1..n |->
                               DistanceToCenter(drawnPoints[i], fitted.x, fitted.y)],
                           n) \div n
        /\ pc = "refitted" => refit = fitted

\* A stroke of distinct points was fitted again in another order.
C2_Witness ==
    /\ pc = "refitted"
    /\ Len(drawnPoints) >= 3
    /\ drawnPoints[1] # drawnPoints[2]
    /\ fitted.radius > 0
    /\ refit = fitted

(***************************************************************************)
(* Claims about the scorer, under SpecScore.                               *)
(***************************************************************************)
\* The terms calculateCircleScore measured for the scored stroke.
Terms == Measure(drawnPoints, circleArg)

Scored == pc \in {"scored", "rescored"}

\* C3: calculateCircleScore returns -1 or an integer in 0..100.
C3_ScoreInRange ==
    /\ Scored => result \in {-1} \cup (0..100)
    /\ pc = "rescored" => result2 \in {-1} \cup (0..100)

\* A numeric score strictly between the floor and 100 was returned.
C3_Witness ==
    /\ pc = "scored"
    /\ variant = "part_000"
    /\ result \in 51..99

\* The minimum point counts as the claim gives them.
ClaimedMinPoints(v) == IF v = "part_000" THEN 30 ELSE 20

\* finishDrawing ends a gesture of fewer points than the minimum.
ShortGestureEnds ==
    /\ isDrawing
    /\ ~isDrawing'
    /\ drawingPoints' = drawingPoints
    /\ Len(drawingPoints) < ClaimedMinPoints(variant)

C5_Original ==
    (Scored /\ (~circleArg.present \/ drawnPoints = <<>>)) => result = -1

\* C5 amended: for a null circle or an empty stroke part_000 and script.js
\* return -1, and both copies in CIRCLE/script.js return 0.
C5_NullCircleOrEmptyStroke ==
    (Scored /\ (~circleArg.present \/ drawnPoints = <<>>)) =>
        result = IF variant \in FullVariants THEN -1 ELSE 0

\* A copy in CIRCLE/script.js scored a long stroke against a null circle.
C5_Witness ==
    /\ pc = "scored"
    /\ variant = "circle_2"
    /\ ~circleArg.present
    /\ Len(drawnPoints) >= RingLen
    /\ result = 0

\* The minimum pixel radius the claims name: 10 in part_000, 5 in script.js.
ClaimedMinRadius(v) == IF v = "part_000" THEN 10 ELSE 5

\* The score floor the claims name: 50 in part_000, 30 in script.js.
ClaimedScoreFloor(v) == IF v = "part_000" THEN 50 ELSE 30

\* C6: a circle whose radius is below the minimum pixel radius, or a stroke
\* whose points share an x or share a y, scores -1.
C6_SmallRadiusOrFlatBox ==
    (/\ Scored
     /\ variant \in FullVariants
     /\ \/ circleArg.present /\ circleArg.radius < ClaimedMinRadius(variant) * Q
        \/ Len(drawnPoints) >= 1 /\ Collinear(drawnPoints))
    => result = -1

\* A long enough stroke on a line, scored against a circle of 65 pixels.
C6_Witness ==
    /\ pc = "scored"
    /\ variant \in FullVariants
    /\ Len(drawnPoints) >= MinPoints(variant)
    /\ circleArg.present
    /\ circleArg.radius >= ClaimedMinRadius(variant) * Q
    /\ Collinear(drawnPoints)
    /\ drawnPoints[1] # drawnPoints[2]
    /\ result = -1

\* The five contributions, each capped on its own, added up.
SumOfCappedContributions(v, m) ==
    Min(VarianceTerm(m), 40 * Q)
    + Min(AspectTerm(m), 30 * Q)
    + Min(RadiusRangeTerm(m), 30 * Q)
    + (IF NotClosed(v, m) THEN Min(ClosureTerm(m), 40 * Q) ELSE 0)
    + (IF OutsideBand(v, m) THEN Min(PathTerm(m), 50 * Q) ELSE 0)

\* C7: the penalty subtracted from baseScore is the sum of the five
\* contributions, each capped individually (40, 30, 30, 40, 50), and
\* finalScore is baseScore minus that sum, clamped to 0..100.
C7_PenaltyIsSumOfCappedTerms ==
    (Scored /\ Measured) =>
        LET m == Terms
        IN  (m.width > 0 /\ m.height > 0) =>
              /\ PenaltyAfterPath(variant, m) = SumOfCappedContributions(variant, m)
              /\ FinalScore(variant, m, MaxDimension(viewport))
                    = Max(0, Min(100 * Q,
                                 BaseScore(variant, m, MaxDimension(viewport))
                                 - SumOfCappedContributions(variant, m)))

\* C8: a numeric score is at least the score floor, and a stroke whose
\* finalScore is below the floor scores -1.
C8_NoScoreBelowFloor ==
    (Scored /\ variant \in FullVariants) =>
        /\ result # -1 => result >= ClaimedScoreFloor(variant)
        /\ Measured =>
              LET m == Terms
              IN  (/\ m.width > 0
                   /\ m.height > 0
                   /\ FinalScore(variant, m, MaxDimension(viewport))
                         < ClaimedScoreFloor(variant) * Q)
                  => result = -1

\* A stroke rejected for its finalScore alone: it is positive and below the
\* floor, and no other rejection applies.
C8_Witness ==
    /\ pc = "scored"
    /\ Measured
    /\ result = -1
    /\ LET m  == Terms
           fs == FinalScore(variant, m, MaxDimension(viewport))
       IN  /\ m.width > 0
           /\ m.height > 0
           /\ fs > 0
           /\ fs < ClaimedScoreFloor(variant) * Q
           /\ AspectRatio(m) * 10 >= AspectFloorTenths(variant) * RQ
           /\ m.normalizedStdDev * 10 <= StdDevCeilTenths(variant) * RQ
           /\ m.radius * 100
                 >= RadiusRatioHundredths(variant) * MaxDimension(viewport) * Q

\* Width and height of the stroke's bounding box, from the points.
BoxWidth(points) ==
    LET xs == {points[i].x : i \in 1..Len(points)}
    IN  (CHOOSE a \in xs : \A b \in xs : a >= b) - (CHOOSE a \in xs : \A b \in xs : a <= b)

BoxHeight(points) ==
    LET ys == {points[i].y : i \in 1..Len(points)}
    IN  (CHOOSE a \in ys : \A b \in ys : a >= b) - (CHOOSE a \in ys : \A b \in ys : a <= b)

\* The aspect ratio of the bounding box is below the floor the claims name:
\* 0.4 in part_000, 0.2 in script.js.
AspectBelowFloor ==
    LET w == BoxWidth(drawnPoints)
        h == BoxHeight(drawnPoints)
    IN  Min(w, h) * 10 < (IF variant = "part_000" THEN 4 ELSE 2) * Max(w, h)

\* normalizedStdDev is above the ceiling the claims name: 0.4 in part_000,
\* 0.6 in script.js.
StdDevAboveCeiling(m) ==
    m.normalizedStdDev * 10 > (IF variant = "part_000" THEN 4 ELSE 6) * RQ

\* radius / min(viewport width, viewport height) is below the ratio the
\* claims name: 0.05 in part_000, 0.02 in script.js.
RadiusBelowRatio ==
    circleArg.radius * 100
        < (IF variant = "part_000" THEN 5 ELSE 2) * Min(viewport.w, viewport.h) * Q

\* C9: an aspect ratio below the floor, a normalizedStdDev above the
\* ceiling or a radius below the screen-relative ratio scores -1, also when
\* finalScore is at or above the score floor.
C9_ShapeRejections ==
    (/\ Scored
     /\ Measured
     /\ AspectBelowFloor \/ StdDevAboveCeiling(Terms) \/ RadiusBelowRatio)
    => result = -1

\* A stroke with finalScore at or above the floor rejected for its aspect
\* ratio.
C9_Witness ==
    /\ pc = "scored"
    /\ Measured
    /\ BoxHeight(drawnPoints) > 0
    /\ AspectBelowFloor
    /\ FinalScore(variant, Terms, MaxDimension(viewport))
          >= ClaimedScoreFloor(variant) * Q
    /\ result = -1

\* Of the scored stroke and its otherwise-identical twin, exactly one closes
\* the loop.
OneCloses == pc = "rescored" /\ (NotClosed(variant, terms1) # NotClosed(variant, terms2))

ScoreOfOpen == IF NotClosed(variant, terms1) THEN result ELSE result2

ScoreOfClosed == IF NotClosed(variant, terms1) THEN result2 ELSE result

OnTheCircle ==
    \A i \in 1..Len(drawnPoints) :
        (drawnPoints[i].x * Q - circleArg.x) * (drawnPoints[i].x * Q - circleArg.x)
        + (drawnPoints[i].y * Q - circleArg.y) * (drawnPoints[i].y * Q - circleArg.y)
        = circleArg.radius * circleArg.radius

\* The stroke passes the checks C11 names, with the thresholds as the code
\* of the variant has them: closure 0.3 / 0.4 of the radius, path length
\* within 0.6..2.0 / 0.5..2.5 of the circumference, 30 / 20 points, radius
\* 10 / 5 pixels and 0.05 / 0.02 of the smaller viewport side.
PassesPerfectCircleChecks ==
    LET p == variant = "part_000"
        circumference == (710 * circleArg.radius) \div 113
        path == PathLength(drawnPoints, Len(drawnPoints))
    IN  /\ variant \in FullVariants
        /\ circleArg.present
        /\ Len(drawnPoints) >= ClaimedMinPoints(variant)
        /\ circleArg.radius >= ClaimedMinRadius(variant) * Q
        /\ ~RadiusBelowRatio
        /\ BoxWidth(drawnPoints) = BoxHeight(drawnPoints)
        /\ StartToEndDistance(drawnPoints) * 10
              <= (IF p THEN 3 ELSE 4) * circleArg.radius
        /\ path * 10 >= (IF p THEN 6 ELSE 5) * circumference
        /\ path * 10 <= (IF p THEN 20 ELSE 25) * circumference

\* C11: a stroke whose points all lie exactly on the circle, with a square
\* bounding box, closed, with a path length inside the band, enough points
\* and a large enough radius, scores exactly 100.
C11_PerfectCircleScores100 ==
    (Scored /\ OnTheCircle /\ PassesPerfectCircleChecks) => result = 100

\* A full ring of lattice points scored 100 against its own fit.
C11_Witness ==
    /\ pc = "scored"
    /\ circleArg = fitted
    /\ Len(drawnPoints) >= RingLen
    /\ OnTheCircle
    /\ PassesPerfectCircleChecks
    /\ result = 100

\* A step that is one call of calculateCircleScore.
ScoreCall ==
    \/ pc = "fitted" /\ pc' = "scored"
    \/ pc = "scored" /\ pc' = "scoredAgain"

RoundState ==
    IF isDrawing THEN "Drawing"
    ELSE IF drawingPoints = <<>> THEN "Idle"
    ELSE "Scored"

\* The step is a reset/start action: a click on the try-again or the start
\* button, or the start of the audio context that a click waited for.
ResetOrStart == tryAgainButtonClick \/ startButtonClick \/ audioStarted

\* C13 as stated: Drawing is entered only from Idle by pointer-down, Scored
\* only from Drawing by pointer-up or pointer-cancel, and Scored is left
\* only by a reset/start action, to Idle.
C13_Original ==
    [][/\ (RoundState # "Drawing" /\ RoundState' = "Drawing")
            => (RoundState = "Idle" /\ handlePointerDown)
       /\ (RoundState # "Scored" /\ RoundState' = "Scored")
            => (RoundState = "Drawing" /\ handlePointerUp)
       /\ (RoundState = "Scored" /\ RoundState' # "Scored")
            => (RoundState' = "Idle" /\ ResetOrStart)]_vars

\* C13 amended: Drawing is entered only by pointer-down, from Idle or from
\* Scored; Scored only from Drawing by pointer-up or pointer-cancel; and
\* Scored is left only by a reset/start action, to Idle, or by pointer-down,
\* to Drawing.
C13_RoundStateMachine ==
    [][/\ (RoundState # "Drawing" /\ RoundState' = "Drawing")
            => handlePointerDown
       /\ (RoundState # "Scored" /\ RoundState' = "Scored")
            => (RoundState = "Drawing" /\ handlePointerUp)
       /\ (RoundState = "Scored" /\ RoundState' # "Scored")
            => \/ RoundState' = "Idle" /\ ResetOrStart
               \/ RoundState' = "Drawing" /\ handlePointerDown]_vars

\* part_000: a gesture was started by pointer-down straight out of Scored
\* (the circle of the finished gesture is still the target, no frame of an
\* overwritten gesture is pending).
C13_Witness ==
    /\ variant = "part_000"
    /\ isDrawing
    /\ Len(drawingPoints) = 1
    /\ targetCircle.present
    /\ highScore > 0
    /\ frames = [tracked |-> TRUE, stray |-> 0]


\* drawingPoints after the step starts with drawingPoints before it.
StrokeExtended ==
    /\ Len(drawingPoints') >= Len(drawingPoints)
    /\ SubSeq(drawingPoints', 1, Len(drawingPoints)) = drawingPoints

\* C14: rounds do not overlap: a pointer-down re-initialises drawingPoints
\* only when no gesture is active, and between two steps of an active
\* gesture the stroke is only appended to, so that every point recorded
\* since the pointer-down is still there, in order, when the gesture ends.
C14_NoOverlappingRounds ==
    [][/\ handlePointerDown => ~isDrawing
       /\ (isDrawing /\ isDrawing') => StrokeExtended]_vars


\* C15: pointer-cancel has exactly the effect of pointer-up: in every
\* reachable state a step is a step of the one exactly when it is a step of
\* the other (so that the one can act exactly when the other can), and with
\* no gesture active neither does anything.
C15_CancelIsPointerUp ==
    [][/\ pointerup <=> pointercancel
       /\ ~isDrawing => ~(pointerup \/ pointercancel)]_vars

\* A gesture that closed the ring has been ended and its circle kept as
\* the target.
C15_Witness ==
    /\ ~isDrawing
    /\ Len(drawingPoints) = RingLen + 1
    /\ targetCircle = calculateCircleProperties(drawingPoints)
    /\ targetCircle.present
    /\ ui.messageDisplay = ""


\* C16: once a gesture has ended its stroke is immutable: with no gesture
\* active, drawingPoints changes only in a pointer-down or a reset/start
\* step (never in a pointer-move, a draw-loop frame or an animation frame);
\* and while a gesture is active drawingPoints holds at least one point.
C16_StrokeImmutableAfterEnd ==
    /\ [](isDrawing => Len(drawingPoints) >= 1)
    /\ [][(~isDrawing /\ drawingPoints' # drawingPoints)
            => (handlePointerDown \/ ResetOrStart)]_vars

\* script.js: a gesture that closed the ring has ended, every frame that was
\* pending has run, and the stroke is still the one the gesture recorded.
C16_Witness ==
    /\ variant = "script"
    /\ ~isDrawing
    /\ frames = NoFrames
    /\ births = 0
    /\ Len(drawingPoints) = RingLen + 1
    /\ \A i \in 1..Len(drawingPoints) : drawingPoints[i] = HandPoint(hand, i - 1)
    /\ scoreBeingDisplayed > 0


\* The messages with which drawLoop reports a provisional score of -1.
KeepDrawing ==
    {"Keep Drawing... (Try to form a circle!)", "Keep Drawing... (Form a closed shape!)"}

\* The score of the buffered stroke against its own fitted circle.
ScoreOfBufferedStroke ==
    calculateCircleScore(variant, drawingPoints,
                         calculateCircleProperties(drawingPoints), MaxDimension(viewport))

C18_ScoredAtMostOnce ==
    [][/\ (pointerup \/ pointercancel) => (isDrawing /\ ~isDrawing')
       /\ ~isDrawing =>
            /\ highScore' = highScore
            /\ targetCircle' # targetCircle => (handlePointerDown \/ ResetOrStart)]_vars

\* part_000: a gesture has been scored; its score is displayed and is the
\* high score, and no gesture is active.
C18_Witness ==
    /\ variant = "part_000"
    /\ ~isDrawing
    /\ ui.tryAgainButton
    /\ ui.centralScoreShown
    /\ ui.centralScoreText = ScoreOfBufferedStroke
    /\ highScore = ui.centralScoreText
    /\ highScore > 0


(***************************************************************************)
(* Claims about the penalty stages, under SpecScore.                       *)
(***************************************************************************)
\* The measured terms with the path length put inside the tolerance band
\* (equal to the circumference) and everything else as measured.
TermsInsideBand == [Terms EXCEPT !.drawnPathLength = TargetCircumference(Terms)]

\* C19: the accumulated penalty never goes down from one stage of
\* calculateCircleScore to the next (variance, aspect ratio, radius range,
\* closure, path length), and a stroke whose path length is outside the
\* band never scores higher than the same terms with the path inside it.
C19_PenaltyNeverLowered ==
    (Scored /\ Measured /\ Terms.width > 0 /\ Terms.height > 0) =>
        /\ PenaltyAfterVariance(Terms) <= PenaltyAfterAspect(Terms)
        /\ PenaltyAfterAspect(Terms) <= PenaltyAfterRange(Terms)
        /\ PenaltyAfterRange(Terms) <= PenaltyAfterClosure(variant, Terms)
        /\ PenaltyAfterClosure(variant, Terms) <= PenaltyAfterPath(variant, Terms)
        /\ OutsideBand(variant, Terms) =>
              result <= ScoreOfTerms(variant, TermsInsideBand, MaxDimension(viewport))


(***************************************************************************)
(* Claims about the high score, under Spec.                                *)
(***************************************************************************)
\* C20: highScore starts as the loaded value and never decreases; the end
\* of a gesture with final score s leaves it at the larger of itself and s,
\* or as it was when s is -1, so that it is always the maximum of the
\* loaded value and the valid final scores so far; every other step (a
\* draw-loop frame with its provisional score included) leaves it; and
\* saveHighScore of script.js returns true exactly when it raised it.
C20_HighScoreIsRunningMax ==
    /\ highScore \in StoredHighScores
    /\ [][/\ highScore' >= highScore
          /\ IF handlePointerUp
             THEN \A s \in {ScoreOfBufferedStroke} :
                     /\ highScore' = IF s = -1 THEN highScore ELSE Max(highScore, s)
                     /\ (variant = "script" /\ s # -1) =>
                           (newRecord(s) <=> highScore' > highScore)
             ELSE highScore' = highScore]_vars

\* A gesture has ended with a valid final score below the loaded high
\* score, which stands.
C20_Witness ==
    /\ ~isDrawing
    /\ Len(drawingPoints) = RingLen + 1
    /\ ui.centralScoreShown
    /\ ui.centralScoreText = ScoreOfBufferedStroke
    /\ ScoreOfBufferedStroke \in 0..(highScore - 1)
    /\ highScore \in StoredHighScores


(***************************************************************************)
(* Claims about the callbacks that outlive a gesture, under Spec.          *)
(***************************************************************************)
\* C21: in script.js the central score display never shows the sentinel,
\* and while a birth animation is pending the score it will display at its
\* end is the one that started it, a score of 80 or more.
C21_ScoreDisplayNeverSentinel ==
    variant = "script" =>
        /\ ui.centralScoreShown => ui.centralScoreText \in 0..100
        /\ births > 0 => scoreBeingDisplayed \in 80..100


\* C22: in script.js a gesture, once begun, is ended only by pointer-up or
\* pointer-cancel: in every other step (the callback of a start-button
\* click included; a further pointer-down is the case of C14), isDrawing
\* stays true and the stroke keeps its points.
C22_GestureEndedOnlyByPointerUp ==
    [][(variant = "script" /\ isDrawing /\ ~(pointerup \/ pointercancel \/ handlePointerDown))
          => (isDrawing' /\ StrokeExtended)]_vars


\* C23: at most one drawLoop callback is pending at any time, the one whose
\* id animationFrameId holds: no callback with an overwritten id is pending,
\* and the end of a gesture leaves none pending at all.
C23_OneDrawLoopPending ==
    /\ [](frames.stray = 0)
    /\ [][(pointerup \/ pointercancel) => frames' = NoFrames]_vars


(***************************************************************************)
(* Claims about the game of CIRCLE/script.js, under SpecCircle.            *)
(***************************************************************************)
\* C24: whenever no gesture is active and targetCircle is not null, it is
\* the fit of the current drawingPoints; so the circle a resize paints is
\* never one computed from an earlier stroke.
C24_TargetCircleIsFitOfStroke ==
    (~isDrawing /\ targetCircle.present) =>
        targetCircle = calculateCircleProperties(drawingPoints)


(***************************************************************************)
(* Claims about Rock-Paper-Scissor, under SpecRPS.                         *)
(***************************************************************************)
\* The pairs (player, computer) the player wins.
WinningPairs == { <<"rock", "scissors">>, <<"paper", "rock">>, <<"scissors", "paper">> }

\* The result seen from the other side.
Mirrored(r) == IF r = "win" THEN "lose" ELSE IF r = "lose" THEN "win" ELSE "tie"

\* C25: determineWinner(p, c) is 'tie' exactly when p = c, 'win' exactly for
\* (rock, scissors), (paper, rock), (scissors, paper) and 'lose' otherwise,
\* and with the arguments exchanged it returns the mirrored result.
C25_DetermineWinnerTable ==
    lastRound.played =>
        LET p == lastRound.playerChoice
            c == lastRound.computerChoice
            r == lastRound.result
        IN  /\ r \in {"tie", "win", "lose"}
            /\ (r = "tie") <=> (p = c)
            /\ (r = "win") <=> (<<p, c>> \in WinningPairs)
            /\ determineWinner(c, p) = Mirrored(r)

C25_Witness ==
    /\ lastRound.played
    /\ lastRound.playerChoice = "paper"
    /\ lastRound.computerChoice = "rock"
    /\ playerScore = 1

\* ceil(N / 2) for a series of length N.
WinsNeeded == IF seriesLength % 2 = 0 THEN seriesLength \div 2
              ELSE seriesLength \div 2 + 1

\* C26: the round scores never exceed ceil(N/2) and are never both equal to
\* it; a score that has reached it is followed by the end of the series and
\* by nothing else; the series ends only then, with exactly one of the
\* series counters incremented, that of the side that reached it, and with
\* playerScore, computerScore, tieScore and roundsPlayed reset to 0.
C26_SeriesEndsAtMajority ==
    /\ [](/\ playerScore <= WinsNeeded
          /\ computerScore <= WinsNeeded
          /\ ~(playerScore = WinsNeeded /\ computerScore = WinsNeeded)
          /\ (playerScore = WinsNeeded \/ computerScore = WinsNeeded) =>
                /\ Len(seriesChecks) = 1
                /\ countdownIntervals = <<>>
                /\ ~playAgainBtn
                /\ ~gameOverOverlay)
    /\ [][/\ (seriesCheck /\ (playerScore = WinsNeeded \/ computerScore = WinsNeeded))
                => gameOverOverlay'
          /\ (gameOverOverlay' /\ ~gameOverOverlay) =>
                /\ playerScore = WinsNeeded \/ computerScore = WinsNeeded
                /\ playerSeriesWins' =
                      playerSeriesWins + (IF playerScore = WinsNeeded THEN 1 ELSE 0)
                /\ computerSeriesWins' =
                      computerSeriesWins + (IF computerScore = WinsNeeded THEN 1 ELSE 0)
                /\ playerScore' = 0 /\ computerScore' = 0
                /\ tieScore' = 0 /\ roundsPlayed' = 0
          /\ (playerSeriesWins' > playerSeriesWins
                 \/ computerSeriesWins' > computerSeriesWins)
                => (gameOverOverlay' /\ ~gameOverOverlay)]_vars

C26_Witness ==
    /\ gameOverOverlay
    /\ seriesLength = 5
    /\ computerSeriesWins = 1
    /\ playerSeriesWins = 0
    /\ roundsPlayed = 0

\* C27: a series of N rounds has at most N rounds: roundsPlayed never
\* exceeds seriesLength.
C27_AtMostNRounds == roundsPlayed <= seriesLength

\* A round is in progress: a countdown is running or a check is pending.
RoundInProgress == countdownIntervals # <<>> \/ seriesChecks # <<>>

\* C28: a click on a choice button changes nothing while the overlay is
\* visible or a round is in progress, so at most one countdown interval is
\* active and no check is pending with it; an accepted choice sets one
\* interval, and the round that clears it is played with that choice and
\* adds 1 to exactly one of playerScore, computerScore and tieScore; no
\* round is executed otherwise.
C28_OneRoundPerAcceptedChoice ==
    /\ [](Len(countdownIntervals) + Len(seriesChecks) <= 1)
    /\ [][/\ (choiceBtnClick /\ (gameOverOverlay \/ RoundInProgress))
                => UNCHANGED vars
          /\ Len(countdownIntervals') > Len(countdownIntervals) =>
                /\ ~gameOverOverlay /\ ~RoundInProgress
                /\ IncludesSelectYourWeapon(gameMessage)
                /\ Len(countdownIntervals') = 1
          /\ Len(countdownIntervals') < Len(countdownIntervals) =>
                /\ roundsPlayed' = roundsPlayed + 1
                /\ lastRound'.playerChoice = countdownIntervals[1].playerChoice
                /\ Len(seriesChecks') = 1
          /\ (playerScore' + computerScore' + tieScore'
                 > playerScore + computerScore + tieScore) =>
                /\ Len(countdownIntervals') < Len(countdownIntervals)
                /\ playerScore' + computerScore' + tieScore'
                      = playerScore + computerScore + tieScore + 1
                /\ playerScore' >= playerScore
                /\ computerScore' >= computerScore
                /\ tieScore' >= tieScore]_vars

C28_Witness ==
    /\ Len(countdownIntervals) = 1
    /\ countdownIntervals[1].countdown = 0
    /\ roundsPlayed = 2
    /\ tieScore = 1
    /\ playerScore = 1

====
